---------------------------- MODULE Spec2Model ----------------------------
(***************************************************************************)
(* entityResource (Umbraco.Web.UI.Client, common/resources/                *)
(* entity.resource.js): six read-only query operations.  Each builds a URL *)
(* with umbRequestHelper.getApiUrl, issues $http.get on it and hands the   *)
(* pending call, with a failure message, to                                *)
(* umbRequestHelper.resourcePromise.                                       *)
(*                                                                         *)
(* Strings are sequences of tokens.  The delimiters "?", "&", "=", "," and *)
(* "-" and the decimal digits are tokens of their own; a word that holds   *)
(* no delimiter ("ids", "Media", "news", a message prefix) is one token.   *)
(* String concatenation is \o, so the text a handler builds can be split   *)
(* again at its delimiters.                                                *)
(***************************************************************************)
EXTENDS Integers, Sequences, FiniteSets

VARIABLES
    calls,      \* the invocations made so far: [op, args]
    httpLog,    \* the $http.get calls issued: [call, method, url, response]
    execLog     \* the resourcePromise calls: [call, http, errorMsg, state, value]

vars == <<calls, httpLog, execLog>>

-----------------------------------------------------------------------------
(* Bounds of the model. *)

MaxCalls == 2       \* invocations in one behaviour of Spec
MaxIds == 2         \* length of the ids array in UrlSpec

-----------------------------------------------------------------------------
(* JavaScript values that reach the handlers. *)

Undefined == [t |-> "undefined", n |-> 0, s |-> <<>>]
JsNum(n) == [t |-> "number", n |-> n, s |-> <<>>]
JsStr(s) == [t |-> "string", n |-> 0, s |-> s]

Digit(d) ==
    CASE d = 0 -> "0" [] d = 1 -> "1" [] d = 2 -> "2" [] d = 3 -> "3"
      [] d = 4 -> "4" [] d = 5 -> "5" [] d = 6 -> "6" [] d = 7 -> "7"
      [] d = 8 -> "8" [] d = 9 -> "9"

RECURSIVE Digits(_)
Digits(n) ==
    IF n < 10 THEN <<Digit(n)>> ELSE Digits(n \div 10) \o <<Digit(n % 10)>>

\* Number to string, as the + operator does with a string operand.
NumToString(n) == IF n < 0 THEN <<"-">> \o Digits(-n) ELSE Digits(n)

\* String(v) for the values above: an undefined value reads "undefined".
JsToString(v) ==
    CASE v.t = "number" -> NumToString(v.n)
      [] v.t = "string" -> v.s
      [] v.t = "undefined" -> <<"undefined">>

\* Array.prototype.toString of an array of numbers: the elements joined by ",".
RECURSIVE ArrayToString(_)
ArrayToString(ids) ==
    IF ids = <<>> THEN <<>>
    ELSE IF Len(ids) = 1 THEN NumToString(ids[1])
    ELSE NumToString(ids[1]) \o <<",">> \o ArrayToString(Tail(ids))

-----------------------------------------------------------------------------
(* umbRequestHelper and $http: the collaborators the handlers call.  Their *)
(* code is not part of entity.resource.js; they follow the contract the    *)
(* specification gives for UrlBuilder and RequestExecutor.                 *)

\* The queryStrings argument of getApiUrl: a ready query string, or an array
\* of dictionaries, each a sequence of key/value entries in insertion order.
QString(s) == [t |-> "string", s |-> s, a |-> <<>>]
QArray(a) == [t |-> "array", s |-> <<>>, a |-> a]
Entry(k, v) == [k |-> k, v |-> v]

RECURSIVE Flatten(_)
Flatten(array) ==
    IF array = <<>> THEN <<>> ELSE Head(array) \o Flatten(Tail(array))

RECURSIVE Supplied(_)
Supplied(entries) ==
    IF entries = <<>> THEN <<>>
    ELSE IF Head(entries).v = Undefined THEN Supplied(Tail(entries))
    ELSE <<Head(entries)>> \o Supplied(Tail(entries))

RECURSIVE JoinEntries(_)
JoinEntries(entries) ==
    IF entries = <<>> THEN <<>>
    ELSE LET e == Head(entries)
             seg == <<e.k, "=">> \o JsToString(e.v)
         IN IF Len(entries) = 1 THEN seg
            ELSE seg \o <<"&">> \o JoinEntries(Tail(entries))

\* One key=value segment per supplied entry, in order, joined by "&"; an
\* entry whose value is undefined is an absent optional parameter.
dictionaryToQueryString(array) == JoinEntries(Supplied(Flatten(array)))

\* The request URL: the base path configured under apiName, the action, and
\* the query string when there is one.
getApiUrl(apiName, actionName, queryStrings) ==
    LET query == IF queryStrings.t = "string" THEN queryStrings.s
                 ELSE dictionaryToQueryString(queryStrings.a)
    IN <<apiName, "/", actionName>>
         \o (IF query = <<>> THEN <<>> ELSE <<"?">> \o query)

\* $http.get(url): one GET request, pending.
httpGet(url) == [method |-> "GET", url |-> url]

\* resourcePromise(httpPromise, errorMsg): one call to the request executor.
\* The promise it returns is settled when the HTTP call is answered
\* (HttpSuccess, HttpError below).
resourcePromise(httpPromise, errorMsg) ==
    [http |-> httpPromise, errorMsg |-> errorMsg]

-----------------------------------------------------------------------------
(* The six handlers.  Each is the sequence of request-executor calls the   *)
(* handler makes, every one carrying the GET it wraps; the promise of the  *)
(* last one is what the handler returns.                                   *)

\* getById with the type left out of the parameter object.
getById_idOnly(id, type) ==
    << resourcePromise(
         httpGet(
           getApiUrl("entityApiBaseUrl", "GetById",
                     QArray(<< <<Entry("id", JsNum(id))>> >>))),
         <<"Failed to retreive entity data for id ">> \o NumToString(id)) >>

getById(id, type) ==
    << resourcePromise(
         httpGet(
           getApiUrl("entityApiBaseUrl", "GetById",
                     QArray(<< <<Entry("id", JsNum(id)), Entry("type", type)>> >>))),
         <<"Failed to retreive entity data for id ">> \o NumToString(id)) >>

\* _.each(ids, function(item) { query += "ids=" + item + "&"; })
RECURSIVE EachIds(_, _)
EachIds(ids, query) ==
    IF ids = <<>> THEN query
    ELSE EachIds(Tail(ids), query \o <<"ids", "=">> \o NumToString(Head(ids)) \o <<"&">>)

\* The loop prepending each segment, so the ids come out in reverse.
RECURSIVE EachIdsPrepend(_, _)
EachIdsPrepend(ids, query) ==
    IF ids = <<>> THEN query
    ELSE EachIdsPrepend(Tail(ids),
                        <<"ids", "=">> \o NumToString(Head(ids)) \o <<"&">> \o query)

getByIds_reversed(ids, type) ==
    LET query == EachIdsPrepend(ids, <<>>) \o <<"type", "=">> \o JsToString(type)
    IN << resourcePromise(
            httpGet(getApiUrl("entityApiBaseUrl", "GetByIds", QString(query))),
            <<"Failed to retreive entity data for ids ">> \o ArrayToString(ids)) >>

\* getByIds appending the type segment only when a type is supplied.
getByIds_typeIfSupplied(ids, type) ==
    LET query == EachIds(ids, <<>>)
                   \o (IF type = Undefined THEN <<>>
                       ELSE <<"type", "=">> \o JsToString(type))
    IN << resourcePromise(
            httpGet(getApiUrl("entityApiBaseUrl", "GetByIds", QString(query))),
            <<"Failed to retreive entity data for ids ">> \o ArrayToString(ids)) >>

\* getByIds issuing one request per id from inside the loop.
getByIds_perId(ids, type) ==
    [i \in 1..Len(ids) |->
        resourcePromise(
          httpGet(getApiUrl("entityApiBaseUrl", "GetByIds",
                            QString(<<"ids", "=">> \o NumToString(ids[i])
                                      \o <<"&", "type", "=">> \o JsToString(type)))),
          <<"Failed to retreive entity data for ids ">> \o ArrayToString(ids))]

\* getByIds with `query` kept outside the function and never reset: it
\* starts from the query string of the GetByIds request before it.
getByIds_sharedQuery(ids, type) ==
    LET before == SelectSeq(httpLog, LAMBDA h : h.url[3] = "GetByIds")
        kept == IF before = <<>> THEN <<>>
                ELSE LET u == before[Len(before)].url IN SubSeq(u, 5, Len(u))
        query == EachIds(ids, kept) \o <<"type", "=">> \o JsToString(type)
    IN << resourcePromise(
            httpGet(getApiUrl("entityApiBaseUrl", "GetByIds", QString(query))),
            <<"Failed to retreive entity data for ids ">> \o ArrayToString(ids)) >>

getByIds(ids, type) ==
    LET query == EachIds(ids, <<>>) \o <<"type", "=">> \o JsToString(type)
    IN << resourcePromise(
            httpGet(getApiUrl("entityApiBaseUrl", "GetByIds", QString(query))),
            <<"Failed to retreive entity data for ids ">> \o ArrayToString(ids)) >>

\* getAll building its query string by concatenation, as getByIds does.
getAll_concat(type) ==
    << resourcePromise(
         httpGet(
           getApiUrl("entityApiBaseUrl", "GetAll",
                     QString(<<"type", "=">> \o JsToString(type)))),
         <<"Failed to retreive entity data for type ">> \o JsToString(type)) >>

\* getAll that issues no request and hands nothing to the request executor.
getAll_noRequest(type) == <<>>

getAll(type) ==
    << resourcePromise(
         httpGet(
           getApiUrl("entityApiBaseUrl", "GetAll",
                     QArray(<< <<Entry("type", type)>> >>))),
         <<"Failed to retreive entity data for type ">> \o JsToString(type)) >>

\* getAncestors with a failure message that leaves the id out.
getAncestors_plainMessage(id, type) ==
    << resourcePromise(
         httpGet(
           getApiUrl("entityApiBaseUrl", "GetAncestors",
                     QArray(<< <<Entry("id", JsNum(id))>>, <<Entry("type", type)>> >>))),
         <<"Failed to retreive ancestor data">>) >>

getAncestors(id, type) ==
    << resourcePromise(
         httpGet(
           getApiUrl("entityApiBaseUrl", "GetAncestors",
                     QArray(<< <<Entry("id", JsNum(id))>>, <<Entry("type", type)>> >>))),
         <<"Failed to retreive ancestor data for id ">> \o NumToString(id)) >>

\* getChildren left with the action of the handler it was copied from.
getChildren_ancestorsAction(id, type) ==
    << resourcePromise(
         httpGet(
           getApiUrl("entityApiBaseUrl", "GetAncestors",
                     QArray(<< <<Entry("id", JsNum(id))>>, <<Entry("type", type)>> >>))),
         <<"Failed to retreive child data for id ">> \o NumToString(id)) >>

getChildren(id, type) ==
    << resourcePromise(
         httpGet(
           getApiUrl("entityApiBaseUrl", "GetChildren",
                     QArray(<< <<Entry("id", JsNum(id))>>, <<Entry("type", type)>> >>))),
         <<"Failed to retreive child data for id ">> \o NumToString(id)) >>

\* search building its query string by concatenation.
search_concat(query, type) ==
    << resourcePromise(
         httpGet(
           getApiUrl("entityApiBaseUrl", "SearchMedia",
                     QString(<<"query", "=">> \o query
                               \o <<"&", "type", "=">> \o JsToString(type)))),
         <<"Failed to retreive entity data for query ">> \o query) >>

search(query, type) ==
    << resourcePromise(
         httpGet(
           getApiUrl("entityApiBaseUrl", "SearchMedia",
                     QArray(<< <<Entry("query", JsStr(query))>>, <<Entry("type", type)>> >>))),
         <<"Failed to retreive entity data for query ">> \o query) >>

-----------------------------------------------------------------------------
(* Inputs. *)

\* Spec draws few inputs, since it runs several invocations at once; UrlSpec
\* runs one invocation and draws from the wider sets.
Ids == {-1}
UrlIds == {-1, 0, 12}
Types == {Undefined, JsStr(<<"Media">>)}
UrlTypes == Types \cup {JsStr(<<"Document">>)}
Queries == {<<>>, <<"news">>}

\* The id arrays of Spec: the empty one and one of two ids.
IdLists == {<<>>, <<12, -1>>}

\* The id arrays of UrlSpec: every array over UrlIds of at most MaxIds ids.
UrlIdLists == UNION {[1..n -> UrlIds] : n \in 0..MaxIds}

Args(id, ids, type, query) ==
    [id |-> id, ids |-> ids, type |-> type, query |-> query]

-----------------------------------------------------------------------------
(* State machine. *)

NoResponse == [arrived |-> FALSE, status |-> 0, data |-> <<>>]
NoValue == [data |-> <<>>, errorMsg |-> <<>>, status |-> 0]

Init ==
    /\ calls = <<>>
    /\ httpLog = <<>>
    /\ execLog = <<>>

\* One invocation: the handler runs to its return, having issued its GETs
\* and made its request-executor calls; nothing has been answered yet.
Invoke(op, args, execs) ==
    LET c == Len(calls) + 1
        h == Len(httpLog)
    IN /\ calls' = Append(calls, [op |-> op, args |-> args])
       /\ httpLog' = httpLog \o
            [k \in 1..Len(execs) |->
                [call |-> c, method |-> execs[k].http.method,
                 url |-> execs[k].http.url, response |-> NoResponse]]
       /\ execLog' = execLog \o
            [k \in 1..Len(execs) |->
                [call |-> c, http |-> h + k, errorMsg |-> execs[k].errorMsg,
                 state |-> "pending", value |-> NoValue]]

GetById(cap, ids, types) ==
    /\ Len(calls) < cap
    /\ \E id \in ids, type \in types :
          Invoke("getById", Args(id, <<>>, type, <<>>), getById(id, type))

GetByIds(cap, lists, types) ==
    /\ Len(calls) < cap
    /\ \E ids \in lists, type \in types :
          Invoke("getByIds", Args(0, ids, type, <<>>), getByIds(ids, type))

GetAll(cap, types) ==
    /\ Len(calls) < cap
    /\ \E type \in types :
          Invoke("getAll", Args(0, <<>>, type, <<>>), getAll(type))

GetAncestors(cap, ids, types) ==
    /\ Len(calls) < cap
    /\ \E id \in ids, type \in types :
          Invoke("getAncestors", Args(id, <<>>, type, <<>>), getAncestors(id, type))

GetChildren(cap, ids, types) ==
    /\ Len(calls) < cap
    /\ \E id \in ids, type \in types :
          Invoke("getChildren", Args(id, <<>>, type, <<>>), getChildren(id, type))

Search(cap, types) ==
    /\ Len(calls) < cap
    /\ \E query \in Queries, type \in types :
          Invoke("search", Args(0, <<>>, type, query), search(query, type))

\* The answer to GET number k arrives, and the request executor settles the
\* promise of every call that wraps it.
Answer(k, response, state) ==
    /\ k \in DOMAIN httpLog
    /\ ~httpLog[k].response.arrived
    /\ httpLog' = [httpLog EXCEPT ![k].response = response]
    /\ execLog' =
         [j \in DOMAIN execLog |->
            IF execLog[j].http = k /\ execLog[j].state = "pending"
            THEN [execLog[j] EXCEPT
                    !.state = state,
                    !.value = IF state = "resolved"
                              THEN [data |-> response.data, errorMsg |-> <<>>,
                                    status |-> response.status]
                              ELSE [data |-> <<>>, errorMsg |-> execLog[j].errorMsg,
                                    status |-> response.status]]
            ELSE execLog[j]]
    /\ UNCHANGED calls

\* A 2xx answer: the promise is resolved with the parsed body.
HttpSuccess ==
    \E k \in DOMAIN httpLog :
        Answer(k, [arrived |-> TRUE, status |-> 200,
                   data |-> <<"result of ">> \o httpLog[k].url], "resolved")

\* A transport failure (status 0) or a non-success status: the promise is
\* rejected with the failure message.
HttpError ==
    \E k \in DOMAIN httpLog, status \in {0, 404} :
        Answer(k, [arrived |-> TRUE, status |-> status, data |-> <<>>], "rejected")

Next ==
    \/ GetById(MaxCalls, Ids, Types)
    \/ GetByIds(MaxCalls, IdLists, Types)
    \/ GetAll(MaxCalls, Types)
    \/ GetAncestors(MaxCalls, Ids, Types)
    \/ GetChildren(MaxCalls, Ids, Types)
    \/ Search(MaxCalls, Types)
    \/ HttpSuccess
    \/ HttpError

Spec == Init /\ [][Next]_vars

\* The request executor answers every request it was handed.
FairSpec == Spec /\ WF_vars(HttpSuccess \/ HttpError)

\* One invocation with its inputs drawn from the wider sets, then its answer.
UrlNext ==
    \/ GetById(1, UrlIds, UrlTypes)
    \/ GetByIds(1, UrlIdLists, UrlTypes)
    \/ GetAll(1, UrlTypes)
    \/ GetAncestors(1, UrlIds, UrlTypes)
    \/ GetChildren(1, UrlIds, UrlTypes)
    \/ Search(1, UrlTypes)
    \/ HttpSuccess
    \/ HttpError

UrlSpec == Init /\ [][UrlNext]_vars

-----------------------------------------------------------------------------
(* Reading a request back: the URL split at its delimiters. *)

RECURSIVE IndexOf(_, _)
\* The first position of token tok in s, 0 when there is none.
IndexOf(s, tok) ==
    IF s = <<>> THEN 0
    ELSE IF Head(s) = tok THEN 1
    ELSE LET i == IndexOf(Tail(s), tok) IN IF i = 0 THEN 0 ELSE i + 1

RECURSIVE Split(_, _)
\* s cut at every sep: "a&b&" gives <<"a", "b", "">>.
Split(s, sep) ==
    LET i == IndexOf(s, sep)
    IN IF i = 0 THEN <<s>>
       ELSE <<SubSeq(s, 1, i - 1)>> \o Split(SubSeq(s, i + 1, Len(s)), sep)

UrlBase(url) == url[1]
UrlAction(url) == url[3]

\* The text after the first "?", empty when the URL has none.
UrlQuery(url) ==
    LET i == IndexOf(url, "?")
    IN IF i = 0 THEN <<>> ELSE SubSeq(url, i + 1, Len(url))

Segments(url) ==
    IF UrlQuery(url) = <<>> THEN <<>> ELSE Split(UrlQuery(url), "&")

\* A segment key=value as [k, v]; a segment without "=" is all key.
Param(seg) ==
    LET i == IndexOf(seg, "=")
    IN IF i = 0 THEN [k |-> seg, v |-> <<>>]
       ELSE [k |-> SubSeq(seg, 1, i - 1), v |-> SubSeq(seg, i + 1, Len(seg))]

Params(url) ==
    [i \in 1..Len(Segments(url)) |-> Param(Segments(url)[i])]

P(k, v) == [k |-> <<k>>, v |-> v]

\* The optional type parameter: present with its text, or absent.
TypeParam(type) ==
    IF type = Undefined THEN <<>> ELSE <<P("type", type.s)>>

GetsOf(c) == SelectSeq(httpLog, LAMBDA h : h.call = c)
ExecsOf(c) == SelectSeq(execLog, LAMBDA e : e.call = c)

\* s holds sub as a run of consecutive tokens.
Contains(s, sub) ==
    \E i \in 0..(Len(s) - Len(sub)) : SubSeq(s, i + 1, i + Len(sub)) = sub

\* Call c issued exactly one request, a GET of `action` under the entity
\* API base key.
OneGet(c, action) ==
    /\ Len(GetsOf(c)) = 1
    /\ GetsOf(c)[1].method = "GET"
    /\ UrlBase(GetsOf(c)[1].url) = "entityApiBaseUrl"
    /\ UrlAction(GetsOf(c)[1].url) = action

UrlOf(c) == GetsOf(c)[1].url

-----------------------------------------------------------------------------
(* Claims about the request each handler builds (UrlSpec). *)

\* C1: for every non-empty ids array and every type, getByIds issues a
\* single GetByIds request whose query string holds one ids=<value> segment
\* per element, in input order with duplicates kept, followed by
\* type=<value> as the last segment.
C1_GetByIdsSegments ==
    \A c \in DOMAIN calls :
        (calls[c].op = "getByIds" /\ calls[c].args.ids # <<>>) =>
            LET ids == calls[c].args.ids
            IN /\ OneGet(c, "GetByIds")
               /\ Params(UrlOf(c)) =
                    [i \in 1..Len(ids) |-> P("ids", NumToString(ids[i]))]
                      \o <<P("type", JsToString(calls[c].args.type))>>

C1_Witness ==
    \E c \in DOMAIN calls :
        /\ calls[c].op = "getByIds"
        /\ calls[c].args.ids = <<12, -1>>
        /\ Len(GetsOf(c)) = 1
        /\ Len(Segments(UrlOf(c))) = 3

\* C10: the getByIds query string ends with exactly one type= segment and
\* never with "&", for every ids array, the empty one included (the query is
\* then exactly type=<type>); the segment is there when type is not
\* supplied too, reading type=undefined.
C10_GetByIdsTypeAlways ==
    \A c \in DOMAIN calls :
        calls[c].op = "getByIds" =>
            LET q == UrlQuery(UrlOf(c))
                ps == Params(UrlOf(c))
                type == calls[c].args.type
            IN /\ Len(GetsOf(c)) = 1
               /\ q # <<>>
               /\ q[Len(q)] # "&"
               /\ Cardinality({i \in DOMAIN ps : ps[i].k = <<"type">>}) = 1
               /\ ps[Len(ps)].k = <<"type">>
               /\ (calls[c].args.ids = <<>> =>
                     q = <<"type", "=">> \o JsToString(type))
               /\ (type = Undefined => ps[Len(ps)] = P("type", <<"undefined">>))

C10_Witness ==
    \E c \in DOMAIN calls :
        /\ calls[c].op = "getByIds"
        /\ calls[c].args.ids = <<>>
        /\ calls[c].args.type = Undefined
        /\ UrlQuery(UrlOf(c)) = <<"type", "=", "undefined">>

-----------------------------------------------------------------------------
(* Claims about invocations in flight (Spec, FairSpec). *)

\* The text that identifies call c: its id, id list, type or query.
Context(c) ==
    LET a == calls[c].args
    IN CASE calls[c].op \in {"getById", "getAncestors", "getChildren"} ->
              NumToString(a.id)
         [] calls[c].op = "getByIds" -> ArrayToString(a.ids)
         [] calls[c].op = "getAll" -> JsToString(a.type)
         [] calls[c].op = "search" -> a.query

Failed(h) == h.response.arrived /\ h.response.status # 200
Succeeded(h) == h.response.arrived /\ h.response.status = 200

\* The promise call c returned: that of its last request-executor call.
PromiseOf(c) ==
    IF ExecsOf(c) = <<>> THEN [state |-> "none", value |-> NoValue]
    ELSE LET e == ExecsOf(c)[Len(ExecsOf(c))]
         IN [state |-> e.state, value |-> e.value]

Settled(c) == PromiseOf(c).state \in {"resolved", "rejected"}

\* C5: for each of the six operations the failure message handed to the
\* request executor holds the call's identifying context, and when the HTTP
\* call fails (transport failure or non-success status) the promise returned
\* ends rejected, never resolved, carrying that message.
C5_FailureRejectsWithContext ==
    \A c \in DOMAIN calls :
        /\ ExecsOf(c) # <<>>
        /\ \A j \in DOMAIN ExecsOf(c) :
              Contains(ExecsOf(c)[j].errorMsg, Context(c))
        /\ (\E i \in DOMAIN GetsOf(c) : Failed(GetsOf(c)[i])) =>
              /\ PromiseOf(c).state = "rejected"
              /\ Contains(PromiseOf(c).value.errorMsg, Context(c))

C5_Witness ==
    \E c \in DOMAIN calls :
        /\ calls[c].op = "getAncestors"
        /\ calls[c].args.id = -1
        /\ Len(GetsOf(c)) = 1
        /\ GetsOf(c)[1].response.arrived
        /\ GetsOf(c)[1].response.status = 0
        /\ PromiseOf(c).state = "rejected"

\* C7: every invocation, whatever its arguments (a negative id and an empty
\* query included), issues exactly one HTTP GET and makes exactly one call
\* to the request executor; this stays so after the call has failed (no
\* retry).
C7_OneGetOneExecutorCall ==
    /\ Len(httpLog) = Len(calls)
    /\ Len(execLog) = Len(calls)
    /\ \A c \in DOMAIN calls :
          /\ Len(GetsOf(c)) = 1
          /\ GetsOf(c)[1].method = "GET"
          /\ Len(ExecsOf(c)) = 1
          /\ httpLog[ExecsOf(c)[1].http].call = c

C7_Witness ==
    \E c, d \in DOMAIN calls :
        /\ calls[c].op = "getById"
        /\ calls[c].args.id = -1
        /\ PromiseOf(c).state = "rejected"
        /\ calls[d].op = "search"
        /\ calls[d].args.query = <<>>
        /\ Len(httpLog) = 2

Urls(c) == [i \in DOMAIN GetsOf(c) |-> GetsOf(c)[i].url]
Responses(c) == [i \in DOMAIN GetsOf(c) |-> GetsOf(c)[i].response]
Messages(c) == [j \in DOMAIN ExecsOf(c) |-> ExecsOf(c)[j].errorMsg]

\* C8: invocations are independent under any interleaving: two invocations
\* of the same operation with the same arguments issue the same request
\* with the same failure message, whatever ran before or between them, and
\* with the same response have the same outcome; every promise is settled
\* by the response to its own invocation's request and by nothing else.
C8_Independent ==
    /\ \A c, d \in DOMAIN calls :
          calls[c] = calls[d] =>
              /\ Urls(c) = Urls(d)
              /\ Messages(c) = Messages(d)
              /\ (Responses(c) = Responses(d) => PromiseOf(c) = PromiseOf(d))
    /\ \A j \in DOMAIN execLog :
          LET e == execLog[j]
              h == httpLog[e.http]
          IN /\ h.call = e.call
             /\ (e.state = "pending") = ~h.response.arrived
             /\ (e.state = "resolved") = Succeeded(h)
             /\ (e.state = "rejected") = Failed(h)

C8_Witness ==
    /\ Len(calls) = 2
    /\ calls[1] = calls[2]
    /\ calls[1].op = "getByIds"
    /\ calls[1].args.ids = <<12, -1>>
    /\ PromiseOf(1).state = "pending"
    /\ PromiseOf(2).state = "rejected"

\* C9: each operation returns with its promise pending; once the request
\* executor answers, the promise is settled: resolved with the parsed
\* result when the HTTP call succeeded, rejected when it failed; a settled
\* promise never changes; and, the executor answering every request, every
\* promise is eventually settled.
C9_PendingThenSettledOnce ==
    /\ [][\A c \in DOMAIN calls' :
             c \notin DOMAIN calls => PromiseOf(c)'.state = "pending"]_vars
    /\ [](\A c \in DOMAIN calls :
             /\ PromiseOf(c).state = "resolved" =>
                   /\ Succeeded(GetsOf(c)[1])
                   /\ PromiseOf(c).value.data = GetsOf(c)[1].response.data
             /\ PromiseOf(c).state = "rejected" => Failed(GetsOf(c)[1]))
    /\ [][\A c \in DOMAIN calls :
             Settled(c) => PromiseOf(c)' = PromiseOf(c)]_vars
    /\ \A c \in 1..MaxCalls : (c \in DOMAIN calls) ~> Settled(c)

C9_Witness ==
    /\ Len(calls) = 2
    /\ PromiseOf(1).state = "resolved"
    /\ PromiseOf(1).value.data = <<"result of ">> \o UrlOf(1)
    /\ PromiseOf(2).state = "rejected"

=============================================================================
